---------------------------- MODULE Spec2Model ----------------------------
(***************************************************************************)
(* A model of the Mach-O object writer of src/src/mach.rs: the partition   *)
(* of an artifact's definitions, the symbol and string table, the segment  *)
(* builder (default and custom sections, alignment padding), the           *)
(* relocation lowerer and the file emitter.                                *)
(*                                                                         *)
(* Names are sequences of bytes.  Payload bytes are modelled by their      *)
(* number: the emitter's file position advances by the length of every     *)
(* write, and the positions at which the parts of the file begin are       *)
(* recorded, as the "SEEK: after ..." diagnostics of Mach::write observe   *)
(* them.  All offsets of the model stay far below 2^31, so the casts to    *)
(* u32 and i32 of the code keep their values.                              *)
(***************************************************************************)
EXTENDS Integers, Sequences, FiniteSets, TLC

VARIABLES
    artifact,       \* the artifact handed to to_bytes (read-only)
    ctx,            \* container context: TRUE for the 64-bit container
    pc,             \* position in to_bytes
    mach,           \* Mach::new partition: code, data, bss, cstrings, sections, bss_size
    symtab,         \* SymbolTable
    segment,        \* SegmentBuilder under construction: sections, offset, size, align_pad_map
    symbol_offset,  \* local symbol_offset of SegmentBuilder::new
    lowered,        \* the links build_relocations has gone through, in order
    out,            \* what Mach::write computed and wrote
    call            \* the insert calls of the symbol-table driver: the names so far, the last name and kind

vars == <<artifact, ctx, pc, mach, symtab, segment, symbol_offset, lowered, out, call>>

(***************************************************************************)
(* Bounds of the model.                                                    *)
(***************************************************************************)
\* The largest link offset `at`: links are taken at 0, at 1 and at MaxAt.
MaxAt == 5
\* Number of insert calls of the symbol-table driver.
MaxInserts == 3

(***************************************************************************)
(* Program constants.                                                      *)
(***************************************************************************)
CODE_SECTION_INDEX == 0
DATA_SECTION_INDEX == 1
CSTRING_SECTION_INDEX == 2
BSS_SECTION_INDEX == 3
NUM_DEFAULT_SECTIONS == 4

N_UNDF == 0
N_EXT == 1
N_SECT == 14
NO_SECT == 0

R_ABS == 0
X86_64_RELOC_UNSIGNED == 0
X86_64_RELOC_SIGNED == 1
X86_64_RELOC_BRANCH == 2
X86_64_RELOC_GOT_LOAD == 3
SIZEOF_RELOCATION_INFO == 8
SIZEOF_SYMTAB_COMMAND == 24

TEXT_MIN_ALIGN_EXP == 4
DATA_MIN_ALIGN_EXP == 3
CSTRING_MIN_ALIGN_EXP == 0
BSS_MIN_ALIGN_EXP == 0

\* Sizes of the serialized structures for the two containers.
SizeofHeader(c) == IF c THEN 32 ELSE 28
SizeofSegment(c) == IF c THEN 72 ELSE 56
SizeofSection(c) == IF c THEN 80 ELSE 68
SizeofNlist(c) == IF c THEN 16 ELSE 12

(***************************************************************************)
(* Names (byte strings).                                                   *)
(***************************************************************************)
EmptyName == << >>
NameF == <<102>>                          \* "f"
NameG == <<103>>                          \* "g"
NameMain == <<109, 97, 105, 110>>         \* "main"
NameExt == <<101, 120, 116>>              \* "ext"
NameSub == <<115, 48>>                    \* "s0"
NameUndefined == <<117>>                  \* "u"
DebugPrefix == <<46, 100, 101, 98, 117, 103>>       \* ".debug"
MachDebugPrefix == <<95, 95, 100, 101, 98, 117, 103>>  \* "__debug"
KeyText == <<95, 95, 116, 101, 120, 116>>           \* "__text"
KeyData == <<95, 95, 100, 97, 116, 97>>             \* "__data"
KeyCstring == <<95, 95, 99, 115, 116, 114, 105, 110, 103>>  \* "__cstring"
KeyBss == <<95, 95, 98, 115, 115>>                  \* "__bss"

Max(a, b) == IF a >= b THEN a ELSE b

RECURSIVE Pow2(_)
Pow2(k) == IF k = 0 THEN 1 ELSE 2 * Pow2(k - 1)

RECURSIVE SumSeq(_)
SumSeq(s) == IF s = << >> THEN 0 ELSE Head(s) + SumSeq(Tail(s))

\* a | b on naturals
RECURSIVE BitOr(_, _)
BitOr(a, b) ==
    IF a = 0 THEN b
    ELSE IF b = 0 THEN a
    ELSE Max(a % 2, b % 2) + 2 * BitOr(a \div 2, b \div 2)

\* a & !m on naturals
RECURSIVE BitAndNot(_, _)
BitAndNot(a, m) ==
    IF a = 0 THEN 0
    ELSE (IF m % 2 = 1 THEN 0 ELSE a % 2) + 2 * BitAndNot(a \div 2, m \div 2)

(***************************************************************************)
(* SymbolBuilder                                                           *)
(***************************************************************************)
NoSection == -1

SymbolBuilderNew(name) ==
    [name |-> name, section |-> NoSection, global |-> FALSE, import |-> FALSE,
     offset |-> 0, segment_relative_offset |-> 0]

\* mutant: n_sect is the section index itself, not the index plus one
SymbolBuilderCreateZeroBased(b) ==
    LET t0 == N_UNDF
        t1 == IF b.global THEN BitOr(t0, N_EXT) ELSE BitAndNot(t0, N_EXT)
        hasSect == b.section # NoSection
        s1 == IF hasSect THEN b.section ELSE 0
        t2 == IF hasSect THEN BitOr(t1, N_SECT) ELSE t1
    IN  [n_strx |-> b.name,
         n_type |-> IF b.import THEN N_EXT ELSE BitOr(t2, N_SECT),
         n_sect |-> IF b.import THEN NO_SECT ELSE s1,
         n_desc |-> 0,
         n_value |-> IF b.import THEN 0 ELSE b.offset]

SymbolBuilderCreate(b) ==
    LET t0 == N_UNDF
        t1 == IF b.global THEN BitOr(t0, N_EXT) ELSE BitAndNot(t0, N_EXT)
        hasSect == b.section # NoSection
        s1 == IF hasSect THEN b.section + 1 ELSE 0
        t2 == IF hasSect THEN BitOr(t1, N_SECT) ELSE t1
    IN  [n_strx |-> b.name,
         n_type |-> IF b.import THEN N_EXT ELSE BitOr(t2, N_SECT),
         n_sect |-> IF b.import THEN NO_SECT ELSE s1,
         n_desc |-> 0,
         n_value |-> IF b.import THEN 0 ELSE b.offset]

(***************************************************************************)
(* SymbolTable.  strtable is the interner: the name with index i is        *)
(* strtable[i + 1].  symbols is the insertion-ordered map from name index  *)
(* (field key) to builder; indexes maps a name index to a symbol ordinal.  *)
(***************************************************************************)
SymbolTableNew ==
    [symbols |-> << >>, strtable |-> <<EmptyName>>, indexes |-> << >>, strtable_size |-> 1]

\* StringInterner::get: the index of an interned name, -1 when it is not interned
StrGet(strtable, name) ==
    IF \E i \in 1..Len(strtable) : strtable[i] = name
    THEN (CHOOSE i \in 1..Len(strtable) : strtable[i] = name) - 1
    ELSE -1

SymtabLen(st) == Len(st.symbols)

SizeofStrtable(st) == st.strtable_size

\* position in st.symbols of the builder stored under name index idx, 0 if none
SymbolPos(st, idx) ==
    IF \E i \in 1..Len(st.symbols) : st.symbols[i].key = idx
    THEN CHOOSE i \in 1..Len(st.symbols) : st.symbols[i].key = idx
    ELSE 0

None == -1

\* mutant: the offset from the start of the segment, not from the start of the section
SymtabOffsetAbsolute(st, symbol_name) ==
    LET idx == StrGet(st.strtable, symbol_name)
    IN  IF idx = -1 \/ SymbolPos(st, idx) = 0 THEN None
        ELSE st.symbols[SymbolPos(st, idx)].builder.offset

\* SymbolTable::offset
SymtabOffset(st, symbol_name) ==
    LET idx == StrGet(st.strtable, symbol_name)
    IN  IF idx = -1 \/ SymbolPos(st, idx) = 0 THEN None
        ELSE st.symbols[SymbolPos(st, idx)].builder.segment_relative_offset

\* SymbolTable::index
SymtabIndex(st, symbol_name) ==
    LET idx == StrGet(st.strtable, symbol_name)
    IN  IF idx = -1 \/ ~(\E i \in 1..Len(st.indexes) : st.indexes[i].key = idx) THEN None
        ELSE st.indexes[CHOOSE i \in 1..Len(st.indexes) : st.indexes[i].key = idx].ordinal

Undefined == [tag |-> "Undefined", section |-> 0, absolute_offset |-> 0,
              segment_relative_offset |-> 0, global |-> FALSE]

Defined(section, absolute_offset, segment_relative_offset, global) ==
    [tag |-> "Defined", section |-> section, absolute_offset |-> absolute_offset,
     segment_relative_offset |-> segment_relative_offset, global |-> global]

InsertBuilder(st, kind) ==
    IF kind.tag = "Undefined"
    THEN [SymbolBuilderNew(st.strtable_size) EXCEPT !.global = TRUE, !.import = TRUE]
    ELSE [SymbolBuilderNew(st.strtable_size) EXCEPT
            !.global = kind.global,
            !.offset = kind.absolute_offset,
            !.segment_relative_offset = kind.segment_relative_offset,
            !.section = kind.section]

\* mutant: the string-table size grows by the name and its NUL only, without the '_' prefix
SymbolTableInsertNoPrefix(st, symbol_name, kind) ==
    LET last_index == Len(st.strtable)
        found == StrGet(st.strtable, symbol_name)
    IN  IF found # -1 THEN st
        ELSE [symbols |-> Append(st.symbols, [key |-> last_index, builder |-> InsertBuilder(st, kind)]),
              strtable |-> Append(st.strtable, symbol_name),
              indexes |-> Append(st.indexes, [key |-> last_index, ordinal |-> Len(st.symbols)]),
              strtable_size |-> st.strtable_size + Len(symbol_name) + 1]

\* mutant: a name that is already present gets its builder replaced by the new kind
SymbolTableInsertOverwrite(st, symbol_name, kind) ==
    LET last_index == Len(st.strtable)
        found == StrGet(st.strtable, symbol_name)
    IN  IF found # -1
        THEN IF SymbolPos(st, found) = 0 THEN st
             ELSE [st EXCEPT !.symbols[SymbolPos(st, found)].builder =
                        [InsertBuilder(st, kind) EXCEPT
                            !.name = st.symbols[SymbolPos(st, found)].builder.name]]
        ELSE [symbols |-> Append(st.symbols, [key |-> last_index, builder |-> InsertBuilder(st, kind)]),
              strtable |-> Append(st.strtable, symbol_name),
              indexes |-> Append(st.indexes, [key |-> last_index, ordinal |-> Len(st.symbols)]),
              strtable_size |-> st.strtable_size + Len(symbol_name) + 1 + 1]

\* mutant: the string-table size grows before the builder takes it as its name offset
SymbolTableInsertSizeFirst(st, symbol_name, kind) ==
    LET name_len == Len(symbol_name) + 1 + 1
        last_index == Len(st.strtable)
        found == StrGet(st.strtable, symbol_name)
        grown == [st EXCEPT !.strtable_size = @ + name_len]
    IN  IF found # -1 THEN st
        ELSE [symbols |-> Append(st.symbols, [key |-> last_index, builder |-> InsertBuilder(grown, kind)]),
              strtable |-> Append(st.strtable, symbol_name),
              indexes |-> Append(st.indexes, [key |-> last_index, ordinal |-> Len(st.symbols)]),
              strtable_size |-> grown.strtable_size]

\* SymbolTable::insert
SymbolTableInsert(st, symbol_name, kind) ==
    LET name_len == Len(symbol_name) + 1 + 1
        last_index == Len(st.strtable)
        found == StrGet(st.strtable, symbol_name)
        name_index == IF found # -1 THEN found ELSE last_index
        strtable1 == IF found # -1 THEN st.strtable ELSE Append(st.strtable, symbol_name)
    IN  IF name_index = last_index
        THEN LET symbols1 == Append(st.symbols, [key |-> name_index, builder |-> InsertBuilder(st, kind)])
             IN  [symbols |-> symbols1,
                  strtable |-> strtable1,
                  indexes |-> Append(st.indexes, [key |-> name_index, ordinal |-> Len(symbols1) - 1]),
                  strtable_size |-> st.strtable_size + name_len]
        ELSE [st EXCEPT !.strtable = strtable1]

\* The string table as Mach::write writes it: one NUL, then for every interned
\* name but the first, '_' (0x5f), the name, and a NUL.
RECURSIVE StrtableTail(_)
StrtableTail(names) ==
    IF names = << >> THEN << >>
    ELSE <<95>> \o Head(names) \o <<0>> \o StrtableTail(Tail(names))

WriteStrtable(st) == <<0>> \o StrtableTail(Tail(st.strtable))

\* The Nlist records as Mach::write writes them, in the order of st.symbols.
WriteSymtable(st) == [i \in 1..Len(st.symbols) |-> SymbolBuilderCreate(st.symbols[i].builder)]


(***************************************************************************)
(* The artifact interface (crate::artifact, outside this file).            *)
(* A declaration: kind is "Function", "Data", "Section", or for imports    *)
(* "ImportFunction" / "ImportData".  align 0 stands for no alignment given.*)
(* A payload is a blob of len bytes or a zero-init length.                 *)
(***************************************************************************)
Decl(kind, global, align, datatype, skind) ==
    [kind |-> kind, global |-> global, align |-> align, datatype |-> datatype, skind |-> skind]

Blob(len) == [tag |-> "Blob", len |-> len]
ZeroInit(len) == [tag |-> "ZeroInit", len |-> len]

Definition(name, decl, data, symbols) ==
    [name |-> name, decl |-> decl, data |-> data, symbols |-> symbols]

\* Data::file_size
FileSize(data) == IF data.tag = "Blob" THEN data.len ELSE 0

\* Decl::is_section
IsSection(decl) == decl.kind = "Section"

ImportDecl(ikind) == Decl("Import" \o ikind, TRUE, 0, "Bytes", "Data")

(***************************************************************************)
(* align_to_align_exp: defined for the powers of two, as the code asserts. *)
(***************************************************************************)
RECURSIVE AlignExpFrom(_, _)
AlignExpFrom(align, align_exp) ==
    IF Pow2(align_exp) # align THEN AlignExpFrom(align, align_exp + 1) ELSE align_exp

AlignToAlignExp(align) == AlignExpFrom(align, 0)

\* def.decl.get_align().unwrap_or(1)
AlignOrOne(decl) == IF decl.align = 0 THEN 1 ELSE decl.align

(***************************************************************************)
(* SectionBuilder and the insertion-ordered map of sections.               *)
(***************************************************************************)
SectionBuilderNew(sectname, segname, size) ==
    [addr |-> 0, align |-> 4, offset |-> 0, flags |-> {"S_REGULAR"}, size |-> size,
     sectname |-> sectname, segname |-> segname, relocations |-> << >>]

\* position of key in the map, 0 if absent
SectionPos(sections, key) ==
    IF \E i \in 1..Len(sections) : sections[i].key = key
    THEN CHOOSE i \in 1..Len(sections) : sections[i].key = key
    ELSE 0

\* IndexMap::insert: a present key keeps its place and gets the new value
SectionsInsert(sections, key, builder) ==
    IF SectionPos(sections, key) # 0
    THEN [sections EXCEPT ![SectionPos(sections, key)] = [key |-> key, builder |-> builder]]
    ELSE Append(sections, [key |-> key, builder |-> builder])

\* HashMap::insert on align_pad_map, a function from names to pad bytes
PadInsert(m, name, pad) ==
    [n \in (DOMAIN m) \cup {name} |-> IF n = name THEN pad ELSE m[n]]

\* align_pad_map.get(name), 0 bytes written when there is no entry
PadGet(m, name) == IF name \in DOMAIN m THEN m[name] ELSE 0

(***************************************************************************)
(* SegmentBuilder::build_section                                           *)
(***************************************************************************)
\* mutant: the alignment of the next definition alone, without the section's minimum
NextDefAlignmentExponentNoMin(min_alignment_exponent, definitions, i) ==
    IF i < Len(definitions)
    THEN AlignToAlignExp(AlignOrOne(definitions[i + 1].decl))
    ELSE 0

\* the alignment exponent the definition after definitions[i] must start at
NextDefAlignmentExponent(min_alignment_exponent, definitions, i) ==
    Max(min_alignment_exponent,
        IF i < Len(definitions)
        THEN AlignToAlignExp(AlignOrOne(definitions[i + 1].decl))
        ELSE 0)

\* mutant: a full block of padding is kept when the offset is already aligned
AlignPadFullBlock(section_relative_offset, exp) ==
    Pow2(exp) - (section_relative_offset % Pow2(exp))

\* mutant: no pad bytes at all
AlignPadNone(section_relative_offset, exp) == 0

\* the pad bytes after a definition that ends at section_relative_offset
AlignPad(section_relative_offset, exp) ==
    LET align_pad == Pow2(exp) - (section_relative_offset % Pow2(exp))
    IN  IF align_pad = Pow2(exp) THEN 0 ELSE align_pad

\* mutant: the pad is recorded but the offsets and the size do not advance by it
BuildSectionStepNoPadAdvance(acc, definitions, i, section, min_alignment_exponent) ==
    LET def == definitions[i]
        symtab1 == SymbolTableInsert(acc.symtab, def.name,
                       Defined(section, acc.symbol_offset, acc.section_relative_offset,
                               def.decl.global))
        sro1 == acc.section_relative_offset + FileSize(def.data)
        next_exp == NextDefAlignmentExponent(min_alignment_exponent, definitions, i)
        align_pad == AlignPad(sro1, next_exp)
    IN  [symtab |-> symtab1,
         symbol_offset |-> acc.symbol_offset + FileSize(def.data),
         section_relative_offset |-> sro1,
         local_size |-> acc.local_size + FileSize(def.data),
         alignment_exponent |-> Max(acc.alignment_exponent, next_exp),
         align_pad_map |-> PadInsert(acc.align_pad_map, def.name, align_pad)]

\* one iteration of the loop over the definitions of a section
BuildSectionStep(acc, definitions, i, section, min_alignment_exponent) ==
    LET def == definitions[i]
        symtab1 == SymbolTableInsert(acc.symtab, def.name,
                       Defined(section, acc.symbol_offset, acc.section_relative_offset,
                               def.decl.global))
        sro1 == acc.section_relative_offset + FileSize(def.data)
        next_exp == NextDefAlignmentExponent(min_alignment_exponent, definitions, i)
        align_pad == AlignPad(sro1, next_exp)
    IN  [symtab |-> symtab1,
         symbol_offset |-> acc.symbol_offset + FileSize(def.data) + align_pad,
         section_relative_offset |-> sro1 + align_pad,
         local_size |-> acc.local_size + FileSize(def.data) + align_pad,
         alignment_exponent |-> Max(acc.alignment_exponent, next_exp),
         align_pad_map |-> PadInsert(acc.align_pad_map, def.name, align_pad)]

RECURSIVE BuildSectionLoop(_, _, _, _, _)
BuildSectionLoop(acc, definitions, i, section, min_alignment_exponent) ==
    IF i > Len(definitions) THEN acc
    ELSE BuildSectionLoop(BuildSectionStep(acc, definitions, i, section, min_alignment_exponent),
                          definitions, i + 1, section, min_alignment_exponent)

\* build_section: st is [symtab, sections, offset, addr, symbol_offset, align_pad_map]
BuildSection(st, sectname, segname, section, definitions, min_alignment_exponent, flags) ==
    LET acc == BuildSectionLoop(
                   [symtab |-> st.symtab, symbol_offset |-> st.symbol_offset,
                    section_relative_offset |-> 0, local_size |-> 0,
                    alignment_exponent |-> min_alignment_exponent,
                    align_pad_map |-> st.align_pad_map],
                   definitions, 1, section, min_alignment_exponent)
        builder == [SectionBuilderNew(sectname, segname, acc.local_size) EXCEPT
                       !.offset = st.offset, !.addr = st.addr,
                       !.align = acc.alignment_exponent,
                       !.flags = IF flags = {} THEN @ ELSE flags]
    IN  [symtab |-> acc.symtab,
         sections |-> SectionsInsert(st.sections, sectname, builder),
         offset |-> st.offset + acc.local_size,
         addr |-> st.addr + acc.local_size,
         symbol_offset |-> acc.symbol_offset,
         align_pad_map |-> acc.align_pad_map]

(***************************************************************************)
(* SegmentBuilder::build_custom_section                                    *)
(***************************************************************************)
StartsWith(s, prefix) ==
    Len(s) >= Len(prefix) /\ SubSeq(s, 1, Len(prefix)) = prefix

RECURSIVE InsertSubSymbols(_, _, _, _)
InsertSubSymbols(st, symbols, section_idx, base_offset) ==
    IF symbols = << >> THEN st
    ELSE InsertSubSymbols(
             SymbolTableInsert(st, Head(symbols).name,
                 Defined(section_idx, base_offset + Head(symbols).offset,
                         Head(symbols).offset, TRUE)),
             Tail(symbols), section_idx, base_offset)

BuildCustomSection(st, section_idx, def) ==
    LET segment_name == CASE def.decl.skind = "Data" -> "__DATA"
                          [] def.decl.skind = "Debug" -> "__DWARF"
                          [] def.decl.skind = "Text" -> "__TEXT"
        sectname == IF StartsWith(def.name, DebugPrefix)
                    THEN MachDebugPrefix \o SubSeq(def.name, Len(DebugPrefix) + 1, Len(def.name))
                    ELSE def.name
        flags == IF def.decl.skind = "Debug" THEN {"S_ATTR_DEBUG"} ELSE {}
        local_size == FileSize(def.data)
        builder == [SectionBuilderNew(sectname, segment_name, local_size) EXCEPT
                       !.offset = st.offset, !.addr = st.addr,
                       !.align = AlignToAlignExp(AlignOrOne(def.decl)),
                       !.flags = flags]
    IN  [symtab |-> InsertSubSymbols(st.symtab, def.symbols, section_idx, st.symbol_offset),
         sections |-> SectionsInsert(st.sections, def.name, builder),
         offset |-> st.offset + local_size,
         addr |-> st.addr + local_size,
         symbol_offset |-> st.symbol_offset + local_size,
         align_pad_map |-> st.align_pad_map]

RECURSIVE BuildCustomSectionsFrom(_, _, _)
BuildCustomSectionsFrom(st, custom_sections, idx) ==
    IF idx >= Len(custom_sections) THEN st
    ELSE BuildCustomSectionsFrom(
             BuildCustomSection(st, idx + NUM_DEFAULT_SECTIONS, custom_sections[idx + 1]),
             custom_sections, idx + 1)

RECURSIVE InsertImports(_, _)
InsertImports(st, imports) ==
    IF imports = << >> THEN st
    ELSE InsertImports(SymbolTableInsert(st, Head(imports).name, Undefined), Tail(imports))

(***************************************************************************)
(* Mach::new: the partition of the definitions                             *)
(***************************************************************************)
IsCode(def) == def.decl.kind = "Function"
IsBss(def) == def.decl.kind = "Data" /\ def.data.tag = "ZeroInit"
IsCstring(def) == def.decl.kind = "Data" /\ ~IsBss(def) /\ def.decl.datatype = "String"
IsData(def) == def.decl.kind = "Data" /\ ~IsBss(def) /\ def.decl.datatype # "String"
IsCustom(def) == def.decl.kind = "Section"

\* mutant: bss_size is overwritten by every zero-init definition, not added to
BssSizeOverwrite(defs) ==
    LET zeroed == SelectSeq(defs, IsBss)
    IN  IF zeroed = << >> THEN 0 ELSE zeroed[Len(zeroed)].data.len

RECURSIVE BssSize(_)
BssSize(defs) ==
    IF defs = << >> THEN 0
    ELSE (IF IsBss(Head(defs)) THEN Head(defs).data.len ELSE 0) + BssSize(Tail(defs))

Partition(definitions) ==
    [code |-> SelectSeq(definitions, IsCode),
     data |-> SelectSeq(definitions, IsData),
     bss |-> SelectSeq(definitions, IsBss),
     cstrings |-> SelectSeq(definitions, IsCstring),
     sections |-> SelectSeq(definitions, IsCustom),
     bss_size |-> BssSize(definitions)]

(***************************************************************************)
(* RelocationBuilder.  r_info is a u32, kept as its 32 bits, bit 0 first.  *)
(***************************************************************************)
RECURSIVE BitAt(_, _)
BitAt(n, i) == IF i = 0 THEN n % 2 ELSE BitAt(n \div 2, i - 1)

\* n as u32
U32(n) == [i \in 1..32 |-> BitAt(n, i - 1)]

\* w << k on u32: the bits shifted past bit 31 are lost
Shl(w, k) == [i \in 1..32 |-> IF i <= k THEN 0 ELSE w[i - k]]

\* a | b on u32
Or32(a, b) == [i \in 1..32 |-> Max(a[i], b[i])]

\* the value of bits lo..hi of a u32
RECURSIVE Field(_, _, _)
Field(w, lo, hi) == IF hi < lo THEN 0 ELSE w[lo + 1] + 2 * Field(w, lo + 1, hi)

RelocationBuilderNew(symbol, relocation_offset, r_type) ==
    [symbol |-> symbol, relocation_offset |-> relocation_offset, absolute |-> FALSE,
     size |-> 0, r_type |-> r_type]

\* the sizes RelocationBuilder::create does not panic on
SizeSupported(size) == size \in {0, 4, 8}

\* mutant: the pc-relative bit is set for an absolute relocation and clear otherwise
RelocationBuilderCreatePcrelSwapped(b) ==
    LET r_symbolnum == U32(b.symbol)
        r_pcrel == Shl(U32(IF b.absolute THEN 1 ELSE 0), 24)
        r_length == Shl(U32(CASE b.size = 0 -> (IF b.absolute THEN 3 ELSE 2)
                              [] b.size = 4 -> 2
                              [] b.size = 8 -> 3), 25)
        r_extern == Shl(U32(1), 27)
        r_type == Shl(U32(b.r_type), 28)
    IN  [r_address |-> b.relocation_offset,
         r_info |-> Or32(Or32(Or32(Or32(r_symbolnum, r_pcrel), r_length), r_extern), r_type)]

RelocationBuilderCreate(b) ==
    LET r_symbolnum == U32(b.symbol)
        r_pcrel == Shl(U32(IF b.absolute THEN 0 ELSE 1), 24)
        r_length == Shl(U32(CASE b.size = 0 -> (IF b.absolute THEN 3 ELSE 2)
                              [] b.size = 4 -> 2
                              [] b.size = 8 -> 3), 25)
        r_extern == Shl(U32(1), 27)
        r_type == Shl(U32(b.r_type), 28)
    IN  [r_address |-> b.relocation_offset,
         r_info |-> Or32(Or32(Or32(Or32(r_symbolnum, r_pcrel), r_length), r_extern), r_type)]

(***************************************************************************)
(* build_relocations: the body of the loop, for one link.                  *)
(* The result is [panic, sections].                                        *)
(***************************************************************************)
Link(from, to, at, reloc) == [from |-> from, to |-> to, at |-> at, reloc |-> reloc]

Auto == [tag |-> "Auto", reloc |-> 0, addend |-> 0, size |-> 0]
Raw(reloc, addend) == [tag |-> "Raw", reloc |-> reloc, addend |-> addend, size |-> 0]
Debug(size) == [tag |-> "Debug", reloc |-> 0, addend |-> 0, size |-> size]


\* the match on link.reloc for Auto and Raw: [panic, absolute, reloc]
RelocKind(link) ==
    LET from == link.from.decl
        to == link.to.decl
        fatal == [panic |-> TRUE, absolute |-> FALSE, reloc |-> 0]
        kind(a, r) == [panic |-> FALSE, absolute |-> a, reloc |-> r]
    IN  IF link.reloc.tag = "Auto"
        THEN IF from.kind = "Section" /\ from.skind = "Debug" THEN fatal
             ELSE IF to.kind = "Section" /\ to.skind = "Debug" THEN fatal
             ELSE IF from.kind = "Section" \/ to.kind = "Section" THEN fatal
             ELSE IF from.kind = "Data" THEN kind(TRUE, X86_64_RELOC_UNSIGNED)
             ELSE IF from.kind = "Function"
                  THEN IF to.kind \in {"Function", "ImportFunction"}
                       THEN kind(FALSE, X86_64_RELOC_BRANCH)
                       ELSE IF to.kind = "Data" THEN kind(FALSE, X86_64_RELOC_SIGNED)
                       ELSE kind(FALSE, X86_64_RELOC_GOT_LOAD)
             ELSE fatal
        ELSE IF link.reloc.addend # 0 THEN fatal
             ELSE IF link.reloc.reloc % 256 = R_ABS THEN kind(TRUE, R_ABS)
             ELSE kind(FALSE, link.reloc.reloc % 256)

PushRelocation(sections, pos, reloc) ==
    [sections EXCEPT ![pos].builder.relocations = Append(@, reloc)]

\* mutant: the Debug arm has no continue and falls through to the placement
LowerDebugLinkFallThrough(sections, st, link) ==
    IF IsSection(link.to.decl) THEN [panic |-> FALSE, sections |-> sections]
    ELSE IF SymtabIndex(st, link.to.name) = None THEN [panic |-> FALSE, sections |-> sections]
    ELSE IF ~SizeSupported(link.reloc.size) \/ SectionPos(sections, link.from.name) = 0
         THEN [panic |-> TRUE, sections |-> sections]
    ELSE LET builder == [RelocationBuilderNew(SymtabIndex(st, link.to.name), link.at,
                                              X86_64_RELOC_UNSIGNED)
                            EXCEPT !.absolute = TRUE, !.size = link.reloc.size]
             pushed == PushRelocation(sections, SectionPos(sections, link.from.name),
                                      RelocationBuilderCreate(builder))
         IN  [panic |-> FALSE,
              sections |-> PushRelocation(pushed, SectionPos(sections, KeyData),
                                          RelocationBuilderCreate(builder))]

\* the Reloc::Debug arm
LowerDebugLink(sections, st, link) ==
    IF IsSection(link.to.decl) THEN [panic |-> FALSE, sections |-> sections]
    ELSE IF SymtabIndex(st, link.to.name) = None THEN [panic |-> FALSE, sections |-> sections]
    ELSE IF ~SizeSupported(link.reloc.size) \/ SectionPos(sections, link.from.name) = 0
         THEN [panic |-> TRUE, sections |-> sections]
    ELSE LET builder == [RelocationBuilderNew(SymtabIndex(st, link.to.name), link.at,
                                              X86_64_RELOC_UNSIGNED)
                            EXCEPT !.absolute = TRUE, !.size = link.reloc.size]
         IN  [panic |-> FALSE,
              sections |-> PushRelocation(sections, SectionPos(sections, link.from.name),
                                          RelocationBuilderCreate(builder))]

\* mutant: every relocation is pushed onto __text's list
PlaceRelocationInText(sections, st, link, absolute, reloc) ==
    LET text_idx == SectionPos(sections, KeyText)
        base_offset == SymtabOffset(st, link.from.name)
        to_symbol_index == SymtabIndex(st, link.to.name)
    IN  IF base_offset # None /\ to_symbol_index # None
        THEN PushRelocation(sections, text_idx,
                 RelocationBuilderCreate(
                     [RelocationBuilderNew(to_symbol_index, base_offset + link.at, reloc)
                         EXCEPT !.absolute = absolute]))
        ELSE sections

\* mutant: the relocation is placed whenever the target has an ordinal, whether or
\* not the source has an offset
PlaceRelocationAnySource(sections, st, link, absolute, reloc) ==
    LET text_idx == SectionPos(sections, KeyText)
        data_idx == SectionPos(sections, KeyData)
        base_offset == SymtabOffset(st, link.from.name)
        to_symbol_index == SymtabIndex(st, link.to.name)
    IN  IF to_symbol_index # None
        THEN PushRelocation(sections, IF absolute THEN data_idx ELSE text_idx,
                 RelocationBuilderCreate(
                     [RelocationBuilderNew(to_symbol_index,
                                           (IF base_offset = None THEN 0 ELSE base_offset) + link.at,
                                           reloc)
                         EXCEPT !.absolute = absolute]))
        ELSE sections

\* the placement of an Auto or Raw link
PlaceRelocation(sections, st, link, absolute, reloc) ==
    LET text_idx == SectionPos(sections, KeyText)
        data_idx == SectionPos(sections, KeyData)
        base_offset == SymtabOffset(st, link.from.name)
        to_symbol_index == SymtabIndex(st, link.to.name)
    IN  IF base_offset # None /\ to_symbol_index # None
        THEN LET builder == RelocationBuilderNew(to_symbol_index, base_offset + link.at, reloc)
             IN  IF absolute
                 THEN PushRelocation(sections, data_idx,
                          RelocationBuilderCreate([builder EXCEPT !.absolute = TRUE]))
                 ELSE PushRelocation(sections, text_idx, RelocationBuilderCreate(builder))
        ELSE sections

LowerLink(sections, st, link) ==
    IF link.reloc.tag = "Debug" THEN LowerDebugLink(sections, st, link)
    ELSE LET k == RelocKind(link)
         IN  IF k.panic THEN [panic |-> TRUE, sections |-> sections]
             ELSE [panic |-> FALSE,
                   sections |-> PlaceRelocation(sections, st, link, k.absolute, k.reloc)]

(***************************************************************************)
(* SectionBuilder::create and Mach::write                                  *)
(***************************************************************************)
\* mutant: the relocation counter advances by the number of records, not by their bytes
SectionBuilderCreateCountOnly(b, section_offset, relocation_offset) ==
    [section |-> [addr |-> b.addr, size |-> b.size, offset |-> section_offset,
                  align |-> b.align,
                  reloff |-> IF b.relocations # << >> THEN relocation_offset ELSE 0,
                  nreloc |-> Len(b.relocations), flags |-> b.flags,
                  sectname |-> b.sectname, segname |-> b.segname],
     section_offset |-> section_offset + b.size,
     relocation_offset |-> relocation_offset + Len(b.relocations)]

\* mutant: the header keeps the builder's own offset, which leaves out the load commands
SectionBuilderCreateOwnOffset(b, section_offset, relocation_offset) ==
    [section |-> [addr |-> b.addr, size |-> b.size, offset |-> b.offset,
                  align |-> b.align,
                  reloff |-> IF b.relocations # << >> THEN relocation_offset ELSE 0,
                  nreloc |-> Len(b.relocations), flags |-> b.flags,
                  sectname |-> b.sectname, segname |-> b.segname],
     section_offset |-> section_offset + b.size,
     relocation_offset |-> relocation_offset + Len(b.relocations) * SIZEOF_RELOCATION_INFO]

\* SectionBuilder::create: [section, section_offset, relocation_offset]
SectionBuilderCreate(b, section_offset, relocation_offset) ==
    LET section0 == [addr |-> b.addr, size |-> b.size, offset |-> b.offset,
                     align |-> b.align, reloff |-> 0, nreloc |-> 0, flags |-> b.flags,
                     sectname |-> b.sectname, segname |-> b.segname]
        section1 == [section0 EXCEPT !.offset = section_offset]
        nrelocs == Len(b.relocations)
    IN  IF b.relocations # << >>
        THEN [section |-> [section1 EXCEPT !.nreloc = nrelocs, !.reloff = relocation_offset],
              section_offset |-> section_offset + section1.size,
              relocation_offset |-> relocation_offset + nrelocs * SIZEOF_RELOCATION_INFO]
        ELSE [section |-> section1,
              section_offset |-> section_offset + section1.size,
              relocation_offset |-> relocation_offset]

\* the loop over segment.sections.values() that makes the section headers
RECURSIVE CreateSections(_, _, _, _)
CreateSections(sections, i, section_offset, relocation_offset) ==
    IF i > Len(sections) THEN << >>
    ELSE LET r == SectionBuilderCreate(sections[i].builder, section_offset, relocation_offset)
         IN  <<r.section>> \o CreateSections(sections, i + 1, r.section_offset, r.relocation_offset)

\* the bytes written for one payload: the blob, nothing for a zero-init payload
WrittenBytes(data) == IF data.tag = "Blob" THEN data.len ELSE 0

\* the file position after the definitions defs, written from position pos with their pads
RECURSIVE WritePayloads(_, _, _)
WritePayloads(defs, align_pad_map, pos) ==
    IF defs = << >> THEN pos
    ELSE WritePayloads(Tail(defs), align_pad_map,
             pos + WrittenBytes(Head(defs).data) + PadGet(align_pad_map, Head(defs).name))

\* the positions at which the payloads of defs start, written from position pos
RECURSIVE PayloadStarts(_, _, _)
PayloadStarts(defs, align_pad_map, pos) ==
    IF defs = << >> THEN << >>
    ELSE <<pos>> \o PayloadStarts(Tail(defs), align_pad_map,
             pos + WrittenBytes(Head(defs).data) + PadGet(align_pad_map, Head(defs).name))

\* the positions at which the relocations of each section start, written from position pos
RECURSIVE RelocStarts(_, _)
RelocStarts(sections, pos) ==
    IF sections = << >> THEN << >>
    ELSE <<pos>> \o RelocStarts(Tail(sections),
             pos + Len(Head(sections).builder.relocations) * SIZEOF_RELOCATION_INFO)

\* Mach::write
Write(m, st, seg, c) ==
    LET nsects == Len(seg.sections)
        segment_load_command_size == SizeofSegment(c) + nsects * SizeofSection(c)
        sizeof_load_commands == segment_load_command_size + SIZEOF_SYMTAB_COMMAND
        symtable_offset == seg.offset + sizeof_load_commands
        strtable_offset == symtable_offset + SymtabLen(st) * SizeofNlist(c)
        relocation_offset_start == strtable_offset + SizeofStrtable(st)
        first_section_offset == SizeofHeader(c) + sizeof_load_commands
        raw_sections == CreateSections(seg.sections, 1, first_section_offset,
                                       relocation_offset_start)
        after_header == SizeofHeader(c)
        after_load_commands == after_header + SizeofSegment(c)
                                   + Len(raw_sections) * SizeofSection(c)
                                   + SIZEOF_SYMTAB_COMMAND
        after_code == WritePayloads(m.code, seg.align_pad_map, after_load_commands)
        after_data == WritePayloads(m.data, seg.align_pad_map, after_code)
        after_cstrings == WritePayloads(m.cstrings, seg.align_pad_map, after_data)
        after_custom_sections == WritePayloads(m.sections, seg.align_pad_map, after_cstrings)
        nlists == WriteSymtable(st)
        after_symtable == after_custom_sections + Len(nlists) * SizeofNlist(c)
        strtable_bytes == WriteStrtable(st)
        after_strtable == after_symtable + Len(strtable_bytes)
        reloc_starts == RelocStarts(seg.sections, after_strtable)
        after_relocations ==
            after_strtable
              + SumSeq([i \in 1..nsects |->
                          Len(seg.sections[i].builder.relocations) * SIZEOF_RELOCATION_INFO])
    IN  [sizeofcmds |-> sizeof_load_commands,
         segment_load_command |->
             [nsects |-> nsects, filesize |-> seg.size, vmsize |-> seg.size + m.bss_size,
              fileoff |-> first_section_offset,
              cmdsize |-> SizeofSegment(c) + Len(raw_sections) * SizeofSection(c)],
         sections |-> raw_sections,
         symtab_load_command |->
             [nsyms |-> SymtabLen(st), symoff |-> symtable_offset,
              stroff |-> strtable_offset, strsize |-> SizeofStrtable(st)],
         after_load_commands |-> after_load_commands,
         after_code |-> after_code,
         after_data |-> after_data,
         after_cstrings |-> after_cstrings,
         custom_starts |-> PayloadStarts(m.sections, seg.align_pad_map, after_cstrings),
         after_custom_sections |-> after_custom_sections,
         nlists |-> nlists,
         after_symtable |-> after_symtable,
         strtable |-> strtable_bytes,
         after_strtable |-> after_strtable,
         reloc_starts |-> reloc_starts,
         after_relocations |-> after_relocations,
         file_len |-> after_relocations + 1]

(***************************************************************************)
(* The artifacts of the model.  Definition names are distinct, as the      *)
(* artifact keeps one declaration per name; an import has no definition;   *)
(* the sub-symbols of a custom section may repeat any name.  Functions and *)
(* custom sections carry blobs.                                            *)
(***************************************************************************)
BlobLens == {1, 4}
ZeroLens == {8, 16}
Aligns == {0, 1, 4, 32}

SecName(pos, skind) ==
    IF skind = "Debug" THEN DebugPrefix \o <<95, 96 + pos>> ELSE <<95, 95, 96 + pos>>

SubSymbols ==
    { << >>,
      <<[name |-> NameSub, offset |-> 2]>>,
      <<[name |-> NameExt, offset |-> 0]>>,
      <<[name |-> NameF, offset |-> 1]>> }

RichDefs(name, pos) ==
    {Definition(name, Decl("Function", g, a, "Bytes", "Data"), Blob(l), << >>) :
        g \in BOOLEAN, a \in Aligns, l \in BlobLens}
    \cup
    {Definition(name, Decl("Data", TRUE, a, dt, "Data"), Blob(l), << >>) :
        a \in Aligns, dt \in {"Bytes", "String"}, l \in BlobLens}
    \cup
    {Definition(name, Decl("Data", TRUE, a, "Bytes", "Data"), ZeroInit(l), << >>) :
        a \in {0, 32}, l \in ZeroLens}
    \cup
    {Definition(SecName(pos, sk), Decl("Section", TRUE, a, "Bytes", sk), Blob(4), syms) :
        a \in {0, 4}, sk \in {"Debug", "Data"}, syms \in SubSymbols}

PlainDefs(name, pos) ==
    { Definition(name, Decl("Function", TRUE, 0, "Bytes", "Data"), Blob(4), << >>),
      Definition(name, Decl("Data", TRUE, 0, "Bytes", "Data"), Blob(4), << >>),
      Definition(name, Decl("Data", TRUE, 0, "String", "Data"), Blob(4), << >>),
      Definition(name, Decl("Data", TRUE, 0, "Bytes", "Data"), ZeroInit(8), << >>),
      Definition(SecName(pos, "Debug"), Decl("Section", TRUE, 0, "Bytes", "Debug"), Blob(4),
                 <<[name |-> NameSub, offset |-> 2]>>),
      Definition(SecName(pos, "Data"), Decl("Section", TRUE, 0, "Bytes", "Data"), Blob(4), << >>),
      Definition(SecName(pos, "Data"), Decl("Section", TRUE, 0, "Bytes", "Data"), Blob(4),
                 <<[name |-> SecName(pos, "Data"), offset |-> 3]>>) }

Import(name, ikind) == [name |-> name, kind |-> ikind]

Artifact(definitions, imports, links) ==
    [definitions |-> definitions, imports |-> imports, links |-> links]

\* the endpoint of a link: a definition's or an import's name and declaration
EndOfDef(def) == [name |-> def.name, decl |-> def.decl]
EndOfImport(imp) == [name |-> imp.name, decl |-> ImportDecl(imp.kind)]

SeqRange(s) == {s[i] : i \in 1..Len(s)}

LinkSources(definitions) == {EndOfDef(d) : d \in SeqRange(definitions)}
\* a function that is declared but has no definition: it gets no symbol
UndefinedFunction == [name |-> NameUndefined, decl |-> Decl("Function", TRUE, 0, "Bytes", "Data")]

LinkTargets(definitions, imports) ==
    LinkSources(definitions) \cup {EndOfImport(i) : i \in SeqRange(imports)}
        \cup {UndefinedFunction}

\* Layout artifacts: up to two definitions of every shape, at most one import,
\* at most one link (from the first definition to itself).
LayoutDefinitions ==
    { << >> }
    \cup {<<d>> : d \in RichDefs(NameF, 1) \cup RichDefs(NameMain, 1)}
    \cup {<<d1, d2>> : d1 \in RichDefs(NameF, 1), d2 \in RichDefs(NameG, 2)}

LayoutLinks(definitions) ==
    { << >> }
    \cup (IF definitions = << >> THEN {}
          ELSE {<<Link(EndOfDef(definitions[1]), EndOfDef(definitions[1]), 0, Raw(R_ABS, 0))>>})

\* the imports of a layout artifact
LayoutImports == {<< >>, <<Import(NameExt, "Function")>>}

\* Link artifacts: two plain definitions, one import, and either one link of
\* every kind or two links of the common kinds.
RelocSpecs ==
    {Auto, Raw(R_ABS, 0), Raw(2, 0), Raw(17, 0), Raw(2, 1),
     Debug(0), Debug(4), Debug(8), Debug(2)}

CommonRelocSpecs == {Auto, Raw(1, 0), Debug(4)}

LinkDefinitions ==
    {<<d1, d2>> : d1 \in PlainDefs(NameF, 1), d2 \in PlainDefs(NameG, 2)}

OneLink(definitions, imports) ==
    {<<Link(f, t, at, r)>> :
        f \in LinkSources(definitions), t \in LinkTargets(definitions, imports),
        at \in {0, 1, MaxAt}, r \in RelocSpecs}

TwoLinks(definitions, imports) ==
    {<<Link(f1, t1, 1, r1), Link(f2, t2, 0, r2)>> :
        f1 \in LinkSources(definitions), f2 \in LinkSources(definitions),
        t1 \in {EndOfDef(definitions[1]), UndefinedFunction}
                  \cup {EndOfImport(i) : i \in SeqRange(imports)},
        t2 \in {EndOfDef(definitions[1])} \cup {EndOfImport(i) : i \in SeqRange(imports)},
        r1 \in CommonRelocSpecs, r2 \in CommonRelocSpecs}

LinkImports == {<<Import(NameExt, "Function")>>, <<Import(NameExt, "Data")>>}

LinkLinks(definitions, imports) ==
    OneLink(definitions, imports) \cup TwoLinks(definitions, imports)

(***************************************************************************)
(* to_bytes as a state machine                                             *)
(***************************************************************************)
NoCall == [names |-> << >>, name |-> EmptyName, kind |-> Undefined]
NoMach == Partition(<< >>)
NoSegment == [sections |-> << >>, offset |-> 0, size |-> 0, align_pad_map |-> << >>]
NoOut == [written |-> FALSE]

InitWith(a, c) ==
    /\ artifact = a
    /\ ctx = c
    /\ pc = "new"
    /\ mach = NoMach
    /\ symtab = SymbolTableNew
    /\ segment = NoSegment
    /\ symbol_offset = 0
    /\ lowered = << >>
    /\ out = NoOut
    /\ call = NoCall

Init ==
    \E ds \in LayoutDefinitions, is \in LayoutImports, c \in BOOLEAN :
        \E ls \in LayoutLinks(ds) : InitWith(Artifact(ds, is, ls), c)

InitLinks ==
    \E ds \in LinkDefinitions, is \in LinkImports :
        \E ls \in LinkLinks(ds, is) : InitWith(Artifact(ds, is, ls), TRUE)

\* the state that build_section and build_custom_section thread through
Building == [symtab |-> symtab, sections |-> segment.sections, offset |-> segment.offset,
             addr |-> segment.size, symbol_offset |-> symbol_offset,
             align_pad_map |-> segment.align_pad_map]

Built(st, next) ==
    /\ symtab' = st.symtab
    /\ segment' = [sections |-> st.sections, offset |-> st.offset, size |-> st.addr,
                   align_pad_map |-> st.align_pad_map]
    /\ symbol_offset' = st.symbol_offset
    /\ pc' = next
    /\ UNCHANGED <<artifact, ctx, mach, lowered, out, call>>

\* mutant: the imports are inserted first, before any defined symbol
MachNewImportsFirst ==
    /\ pc = "new"
    /\ mach' = Partition(artifact.definitions)
    /\ symtab' = InsertImports(SymbolTableNew, artifact.imports)
    /\ segment' = [NoSegment EXCEPT !.offset = SizeofHeader(ctx)]
    /\ symbol_offset' = 0
    /\ pc' = "text"
    /\ UNCHANGED <<artifact, ctx, lowered, out, call>>

\* Mach::new up to the call of SegmentBuilder::new, and the locals of the latter
MachNew ==
    /\ pc = "new"
    /\ mach' = Partition(artifact.definitions)
    /\ symtab' = SymbolTableNew
    /\ segment' = [NoSegment EXCEPT !.offset = SizeofHeader(ctx)]
    /\ symbol_offset' = 0
    /\ pc' = "text"
    /\ UNCHANGED <<artifact, ctx, lowered, out, call>>

BuildText ==
    /\ pc = "text"
    /\ Built(BuildSection(Building, KeyText, "__TEXT", CODE_SECTION_INDEX, mach.code,
                          TEXT_MIN_ALIGN_EXP,
                          {"S_ATTR_PURE_INSTRUCTIONS", "S_ATTR_SOME_INSTRUCTIONS"}), "data")

BuildData ==
    /\ pc = "data"
    /\ Built(BuildSection(Building, KeyData, "__DATA", DATA_SECTION_INDEX, mach.data,
                          DATA_MIN_ALIGN_EXP, {}), "cstring")

BuildCstring ==
    /\ pc = "cstring"
    /\ Built(BuildSection(Building, KeyCstring, "__TEXT", CSTRING_SECTION_INDEX, mach.cstrings,
                          CSTRING_MIN_ALIGN_EXP, {"S_CSTRING_LITERALS"}), "bss")

BuildBss ==
    /\ pc = "bss"
    /\ Built(BuildSection(Building, KeyBss, "__DATA", BSS_SECTION_INDEX, mach.bss,
                          BSS_MIN_ALIGN_EXP, {"S_ZEROFILL"}), "custom")

BuildCustomSections ==
    /\ pc = "custom"
    /\ Built(BuildCustomSectionsFrom(Building, mach.sections, 0), "imports")

ImportSymbols ==
    /\ pc = "imports"
    /\ symtab' = InsertImports(symtab, artifact.imports)
    /\ pc' = "reloc"
    /\ UNCHANGED <<artifact, ctx, mach, segment, symbol_offset, lowered, out, call>>

\* one iteration of the loop of build_relocations
BuildRelocation ==
    /\ pc = "reloc"
    /\ Len(lowered) < Len(artifact.links)
    /\ LET link == artifact.links[Len(lowered) + 1]
           r == LowerLink(segment.sections, symtab, link)
       IN  /\ lowered' = Append(lowered, link)
           /\ segment' = [segment EXCEPT !.sections = r.sections]
           /\ pc' = IF r.panic THEN "panic" ELSE "reloc"
    /\ UNCHANGED <<artifact, ctx, mach, symtab, symbol_offset, out, call>>

MachWrite ==
    /\ pc = "reloc"
    /\ Len(lowered) = Len(artifact.links)
    /\ out' = Write(mach, symtab, segment, ctx)
    /\ pc' = "done"
    /\ UNCHANGED <<artifact, ctx, mach, symtab, segment, symbol_offset, lowered, call>>

Next ==
    \/ MachNew
    \/ BuildText
    \/ BuildData
    \/ BuildCstring
    \/ BuildBss
    \/ BuildCustomSections
    \/ ImportSymbols
    \/ BuildRelocation
    \/ MachWrite

Spec == Init /\ [][Next]_vars

SpecLinks == InitLinks /\ [][Next]_vars

(***************************************************************************)
(* The symbol table alone, driven by arbitrary insert calls.               *)
(***************************************************************************)
InsertNames == {EmptyName, NameF, NameG, NameExt}

InsertKinds ==
    {Undefined} \cup
    {Defined(s, 16 * s + r, r, g) : s \in {CODE_SECTION_INDEX, DATA_SECTION_INDEX},
                                    r \in {0, 4}, g \in BOOLEAN}

InitSymtab ==
    /\ artifact = Artifact(<< >>, << >>, << >>)
    /\ ctx = TRUE
    /\ pc = "symtab"
    /\ mach = NoMach
    /\ symtab = SymbolTableNew
    /\ segment = NoSegment
    /\ symbol_offset = 0
    /\ lowered = << >>
    /\ out = NoOut
    /\ call = NoCall

Insert ==
    /\ pc = "symtab"
    /\ Len(call.names) < MaxInserts
    /\ \E name \in InsertNames, kind \in InsertKinds :
          /\ symtab' = SymbolTableInsert(symtab, name, kind)
          /\ call' = [names |-> Append(call.names, name), name |-> name, kind |-> kind]
    /\ UNCHANGED <<artifact, ctx, pc, mach, segment, symbol_offset, lowered, out>>

NextSymtab == Insert

SpecSymtab == InitSymtab /\ [][NextSymtab]_vars

(***************************************************************************)
(* Properties                                                              *)
(***************************************************************************)
Finished == pc = "done"

\* the builder of the section stored under key
SectionOf(key) == segment.sections[SectionPos(segment.sections, key)].builder

\* the definition of the artifact with this name
DefNamed(name) ==
    CHOOSE d \in SeqRange(artifact.definitions) : d.name = name

\* the key of the section a definition is placed in
SectionKeyOf(def) ==
    IF IsCode(def) THEN KeyText
    ELSE IF IsBss(def) THEN KeyBss
    ELSE IF IsCstring(def) THEN KeyCstring
    ELSE IF IsData(def) THEN KeyData
    ELSE def.name

SectionsWithRelocs == {i \in 1..Len(out.sections) : out.sections[i].nreloc > 0}

\* C1: every part of the file is written at the position its header declares:
\* the symbol table at symoff, the string table at stroff, the relocations of
\* every section that has some at that section's reloff, and the payload bytes
\* written (blobs and pads) are as many as the sizes of the sections add up to.
C1_WrittenWhereDeclared ==
    Finished =>
        /\ out.after_custom_sections = out.symtab_load_command.symoff
        /\ out.after_symtable = out.symtab_load_command.stroff
        /\ \A i \in SectionsWithRelocs : out.reloc_starts[i] = out.sections[i].reloff
        /\ out.after_custom_sections - out.after_load_commands
             = SumSeq([i \in 1..Len(out.sections) |-> out.sections[i].size])

C1_Witness ==
    /\ Finished
    /\ Cardinality(SectionsWithRelocs) >= 2
    /\ \E i \in 1..Len(out.sections) : out.sections[i].size = 16
    /\ Len(out.nlists) >= 3

\* the segment is laid out: every section is built and every symbol inserted
LaidOut == pc \in {"reloc", "done", "panic"}

\* the definitions of the default section stored under key, in layout order
DefsOf(key) ==
    IF key = KeyText THEN mach.code
    ELSE IF key = KeyData THEN mach.data
    ELSE IF key = KeyCstring THEN mach.cstrings
    ELSE mach.bss

DefaultKeys == {KeyText, KeyData, KeyCstring, KeyBss}

\* C2: in every default section, a definition's offset plus its file size plus
\* its pad is the offset of the next definition of the section, or the size of
\* the section for the last definition.
C2_OffsetsChain ==
    LaidOut =>
        \A key \in DefaultKeys :
            LET defs == DefsOf(key)
            IN  \A i \in 1..Len(defs) :
                    SymtabOffset(symtab, defs[i].name) + FileSize(defs[i].data)
                        + segment.align_pad_map[defs[i].name]
                      = IF i < Len(defs)
                        THEN SymtabOffset(symtab, defs[i + 1].name)
                        ELSE SectionOf(key).size

C2_Witness ==
    /\ LaidOut
    /\ Len(mach.code) = 2
    /\ segment.align_pad_map[mach.code[1].name] = 15
    /\ segment.align_pad_map[mach.code[2].name] = 12
    /\ SymtabOffset(symtab, mach.code[2].name) = 16
    /\ SectionOf(KeyText).size = 32

\* the file positions at which the payloads of the sections start, in section
\* order (__bss writes nothing: its payload would start where the next one does),
\* followed by the position at which the symbol table starts
PayloadStartsThenSymoff ==
    <<out.after_load_commands, out.after_code, out.after_data, out.after_cstrings>>
        \o out.custom_starts \o <<out.symtab_load_command.symoff>>

\* C3: for every default section, the file offset of its header plus its size
\* is where the payload of the next section starts, or symoff for the last section.
C3_SectionsAbut ==
    Finished =>
        \A i \in 1..NUM_DEFAULT_SECTIONS :
            out.sections[i].offset + out.sections[i].size = PayloadStartsThenSymoff[i + 1]

C3_Witness ==
    /\ Finished
    /\ out.sections[1].size = 16
    /\ out.sections[2].size = 0
    /\ Len(out.sections) = 5
    /\ out.sections[5].offset = out.sections[4].offset
    /\ out.sections[5].offset = out.custom_starts[1]
    /\ out.sections[5].offset + 4 = out.symtab_load_command.symoff

\* the names that get a defined symbol: the definitions of the default sections
\* and the sub-symbols of the custom sections
DefinedNames ==
    {d.name : d \in {x \in SeqRange(artifact.definitions) : ~IsCustom(x)}}
      \cup UNION {{y.name : y \in SeqRange(d.symbols)} : d \in SeqRange(artifact.definitions)}

\* the name of the symbol with ordinal i - 1
SymbolName(i) == symtab.strtable[symtab.symbols[i].key + 1]

\* the bit N_SECT of n_type is set
HasSectBits(n_type) == BitAndNot(N_SECT, n_type) = 0

\* C6: in the emitted symbol table a symbol of a definition or of a sub-symbol
\* has n_sect in 1..nsects and an n_type with N_SECT (so not N_UNDF); a symbol
\* of an import has n_sect = NO_SECT, n_type = N_EXT and n_value = 0.
C6_SymbolKinds ==
    Finished =>
        \A i \in 1..Len(out.nlists) :
            IF SymbolName(i) \in DefinedNames
            THEN /\ out.nlists[i].n_sect \in 1..out.segment_load_command.nsects
                 /\ out.nlists[i].n_type # N_UNDF
                 /\ HasSectBits(out.nlists[i].n_type)
            ELSE /\ out.nlists[i].n_sect = NO_SECT
                 /\ out.nlists[i].n_type = N_EXT
                 /\ out.nlists[i].n_value = 0

C6_Witness ==
    /\ Finished
    /\ Len(out.nlists) = 3
    /\ out.nlists[1].n_sect = 1 /\ out.nlists[1].n_type = N_SECT
    /\ out.nlists[2].n_sect = 5 /\ out.nlists[2].n_type = N_SECT + N_EXT
    /\ SymbolName(2) = NameSub
    /\ out.nlists[3].n_sect = NO_SECT /\ SymbolName(3) = NameExt

\* the artifact of scenario S2: the global function main with a 1-byte blob alone
OnlyMain ==
    /\ Len(artifact.definitions) = 1
    /\ artifact.definitions[1].name = NameMain
    /\ artifact.definitions[1].decl.kind = "Function"
    /\ artifact.definitions[1].decl.global
    /\ artifact.definitions[1].data = Blob(1)
    /\ artifact.imports = << >>
    /\ artifact.links = << >>

\* C8 as stated: for the function main with a 1-byte blob alone, __text has size 1
\* and alignment exponent 4.
C8_Original ==
    (Finished /\ OnlyMain) => out.sections[1].size = 1 /\ out.sections[1].align = 4

\* C8 amended: for the function main with a 1-byte blob alone, __text has size 16
\* (the byte and 15 pad bytes up to the section's minimum alignment) and
\* alignment exponent 4, and 16 payload bytes are written.
C8_TextOfMain ==
    (Finished /\ OnlyMain) =>
        /\ out.sections[1].size = 16
        /\ out.sections[1].align = 4
        /\ segment.align_pad_map[NameMain] = 15
        /\ out.after_code - out.after_load_commands = 16

C8_Witness == Finished /\ OnlyMain /\ out.sections[1].sectname = KeyText

\* the artifact of scenario S3 without its link: the functions f (4 bytes,
\* align 1) and g (4 bytes, align 4), in this order
FThenG ==
    /\ Len(artifact.definitions) = 2
    /\ artifact.definitions[1].name = NameF
    /\ artifact.definitions[1].decl.kind = "Function"
    /\ artifact.definitions[1].decl.align = 1
    /\ artifact.definitions[1].data = Blob(4)
    /\ artifact.definitions[2].name = NameG
    /\ artifact.definitions[2].decl.kind = "Function"
    /\ artifact.definitions[2].decl.align = 4
    /\ artifact.definitions[2].data = Blob(4)

\* C9 as stated: no pad bytes follow f and g is at section offset 4.
C9_Original ==
    (LaidOut /\ FThenG) =>
        segment.align_pad_map[NameF] = 0 /\ SymtabOffset(symtab, NameG) = 4

\* C9 amended: 12 pad bytes follow f (g starts at the minimum alignment of
\* __text, 16 bytes) and g is at section offset 16.
C9_PadBetweenFAndG ==
    (LaidOut /\ FThenG) =>
        segment.align_pad_map[NameF] = 12 /\ SymtabOffset(symtab, NameG) = 16

C9_Witness == Finished /\ FThenG /\ out.after_code - out.after_load_commands = 32

\* C4: after any sequence of inserts (repeated names and the empty name
\* included) sizeof_strtable() is the number of bytes written for the string
\* table: one NUL, then '_', the name and a NUL for every non-empty interned name.
C4_StrtableSize == SizeofStrtable(symtab) = Len(WriteStrtable(symtab))

C4_Witness ==
    /\ call.names = <<NameF, EmptyName, NameF>>
    /\ SizeofStrtable(symtab) = Len(NameF) + 3
    /\ WriteStrtable(symtab) = <<0, 95>> \o NameF \o <<0>>

\* the link that the next iteration of build_relocations lowers
NextLink == artifact.links[Len(lowered) + 1]

\* a step of build_relocations that lowers one link
LowersLink == pc = "reloc" /\ Len(lowered') = Len(lowered) + 1

\* the relocations that the step appends to the list of the section at position i
Appended(i) ==
    SubSeq(segment'.sections[i].builder.relocations,
           Len(segment.sections[i].builder.relocations) + 1,
           Len(segment'.sections[i].builder.relocations))

\* the section that contains the source of a link
SourceSection(link) == SectionOf(SectionKeyOf(DefNamed(link.from.name)))

\* r_address lies in the source's section and the symbol ordinal is below nsyms
InRange(link, r) ==
    /\ r.r_address >= 0
    /\ r.r_address < SourceSection(link).size
    /\ Field(r.r_info, 0, 23) < SymtabLen(symtab)

\* C5 as stated: every relocation emitted for a link has its r_address in
\* [0, size) of the section that contains the link's source, and a symbol
\* ordinal below nsyms.
C5_Original ==
    [][LowersLink =>
          \A i \in 1..Len(segment.sections) :
              \A j \in 1..Len(Appended(i)) : InRange(NextLink, Appended(i)[j])]_vars

\* the source of the link is a definition of a default section, or the link is
\* a Debug link from a custom section, and at is inside the source's bytes
InsideSource(link) ==
    /\ link.at < FileSize(DefNamed(link.from.name).data)
    /\ ~IsCustom(DefNamed(link.from.name)) \/ link.reloc.tag = "Debug"

\* C5 amended: every relocation emitted for a link whose source is a definition
\* of a default section (or, for a Debug link, a custom section) and whose
\* offset at is smaller than the file size of the source has its r_address in
\* [0, size) of the section that contains the source, and a symbol ordinal
\* below nsyms.
C5_RelocationInRange ==
    [][(LowersLink /\ InsideSource(NextLink)) =>
          \A i \in 1..Len(segment.sections) :
              \A j \in 1..Len(Appended(i)) : InRange(NextLink, Appended(i)[j])]_vars

C5_Witness ==
    /\ Finished
    /\ Len(lowered) = 2
    /\ lowered[1].from.name = NameG /\ lowered[1].at = 1 /\ lowered[1].reloc = Auto
    /\ SymtabOffset(symtab, NameG) = 16
    /\ out.sections[1].nreloc = 2
    /\ segment.sections[1].builder.relocations[1].r_address = 17
    /\ Field(segment.sections[1].builder.relocations[1].r_info, 0, 23) = 0

\* the builder of the symbol of an inserted name
SymbolOf(st, name) == st.symbols[SymbolPos(st, StrGet(st.strtable, name))].builder

\* C7: an insert leaves the ordinal, offsets, section, global and import flags
\* of every name that has a symbol unchanged, and an insert of a name that is
\* already interned leaves len() and sizeof_strtable() unchanged.
C7_InsertIdempotent ==
    [][pc = "symtab" =>
          /\ \A n \in InsertNames :
                 SymtabIndex(symtab, n) # None =>
                     /\ SymtabIndex(symtab', n) = SymtabIndex(symtab, n)
                     /\ SymtabOffset(symtab', n) = SymtabOffset(symtab, n)
                     /\ SymbolOf(symtab', n) = SymbolOf(symtab, n)
          /\ (call' # call /\ StrGet(symtab.strtable, call'.name) # -1) =>
                 /\ SymtabLen(symtab') = SymtabLen(symtab)
                 /\ SizeofStrtable(symtab') = SizeofStrtable(symtab)]_vars

C7_Witness ==
    /\ call.names = <<NameF, NameG, NameF>>
    /\ call.kind = Undefined
    /\ SymtabLen(symtab) = 2
    /\ SymtabIndex(symtab, NameF) = 0
    /\ ~SymbolOf(symtab, NameF).import
    /\ SymbolOf(symtab, NameF).section = DATA_SECTION_INDEX

\* the link is Auto or Raw, the lowerer reaches the placement step for it, and
\* the source's offset and the target's ordinal both resolve
Placed(link) ==
    /\ link.reloc.tag \in {"Auto", "Raw"}
    /\ ~RelocKind(link).panic
    /\ SymtabOffset(symtab, link.from.name) # None
    /\ SymtabIndex(symtab, link.to.name) # None

\* the relocation of the link is absolute
IsAbsolute(link) ==
    \/ link.reloc.tag = "Auto" /\ link.from.decl.kind = "Data"
    \/ link.reloc.tag = "Raw" /\ link.reloc.reloc = R_ABS

\* C10: for an Auto or Raw link whose source offset and target ordinal resolve,
\* exactly one relocation is appended, with r_address = symtab.offset(from) + at,
\* to the list of __data if and only if the relocation is absolute (Auto with a
\* Data source, or Raw with R_ABS) and to the list of __text otherwise; the list
\* of no other section changes.
C10_Placement ==
    [][(LowersLink /\ Placed(NextLink)) =>
          LET target == SectionPos(segment.sections,
                                   IF IsAbsolute(NextLink) THEN KeyData ELSE KeyText)
          IN  /\ Len(segment'.sections) = Len(segment.sections)
              /\ Len(Appended(target)) = 1
              /\ Appended(target)[1].r_address
                     = SymtabOffset(symtab, NextLink.from.name) + NextLink.at
              /\ Field(Appended(target)[1].r_info, 0, 23) = SymtabIndex(symtab, NextLink.to.name)
              /\ Field(Appended(target)[1].r_info, 24, 24) = (IF IsAbsolute(NextLink) THEN 0 ELSE 1)
              /\ \A i \in 1..Len(segment.sections) :
                     i # target =>
                         segment'.sections[i].builder.relocations
                             = segment.sections[i].builder.relocations]_vars

C10_Witness ==
    /\ Finished
    /\ Len(lowered) = 1
    /\ lowered[1].reloc = Auto
    /\ lowered[1].from.decl.kind = "Data"
    /\ lowered[1].to.decl.kind = "ImportFunction"
    /\ lowered[1].at = 1
    /\ SymtabOffset(symtab, lowered[1].from.name) = 0
    /\ out.sections[1].nreloc = 0
    /\ out.sections[2].nreloc = 1
    /\ segment.sections[2].builder.relocations[1].r_address = 1
    /\ Field(segment.sections[2].builder.relocations[1].r_info, 28, 31) = X86_64_RELOC_UNSIGNED

\* the source's offset and the target's ordinal are both found in the symbol table
Resolved(link) ==
    /\ SymtabOffset(symtab, link.from.name) # None
    /\ SymtabIndex(symtab, link.to.name) # None

\* the link is Auto or Raw and the lowerer rejects it before any lookup: an Auto
\* link with a section at either end, or a Raw link with an addend
Unsupported(link) ==
    \/ link.reloc.tag = "Auto" /\ (IsSection(link.from.decl) \/ IsSection(link.to.decl))
    \/ link.reloc.tag = "Raw" /\ link.reloc.addend # 0

AutoOrRaw(link) == link.reloc.tag \in {"Auto", "Raw"}

\* the r_address of the relocations that the resolved links among links put on
\* the list of __data (absolute) or of __text (not absolute), in link order
RECURSIVE ExpectedAddresses(_, _)
ExpectedAddresses(links, absolute) ==
    IF links = << >> THEN << >>
    ELSE (IF Resolved(Head(links)) /\ IsAbsolute(Head(links)) = absolute
          THEN <<SymtabOffset(symtab, Head(links).from.name) + Head(links).at>>
          ELSE << >>)
         \o ExpectedAddresses(Tail(links), absolute)

\* the r_address of the relocations on the list of the section stored under key
AddressesOf(key) ==
    [j \in 1..Len(SectionOf(key).relocations) |-> SectionOf(key).relocations[j].r_address]

\* the relocation lists hold what the resolved links lowered so far produce, in
\* link order, and nothing else
OnlyResolvedLowered ==
    /\ AddressesOf(KeyText) = ExpectedAddresses(lowered, FALSE)
    /\ AddressesOf(KeyData) = ExpectedAddresses(lowered, TRUE)
    /\ \A i \in 1..Len(segment.sections) :
           segment.sections[i].key \notin {KeyText, KeyData} =>
               segment.sections[i].builder.relocations = << >>

AllAutoOrRaw == \A i \in 1..Len(artifact.links) : AutoOrRaw(artifact.links[i])

\* C11 as stated: an Auto or Raw link whose source or target name is not
\* resolved never aborts to_bytes; it adds no relocation, the other links
\* produce theirs in link order, and the file is written with them.
C11_Original ==
    /\ (pc = "panic" /\ AutoOrRaw(lowered[Len(lowered)])) => Resolved(lowered[Len(lowered)])
    /\ (pc \in {"reloc", "done"} /\ AllAutoOrRaw) => OnlyResolvedLowered

\* C11 amended: an Auto or Raw link that the lowerer does not reject before the
\* lookups (an Auto link with a section at either end and a Raw link with an
\* addend are fatal) and whose source or target name is not resolved does not
\* abort to_bytes; it adds no relocation, the other links produce theirs in
\* link order, and the file is written with exactly these relocations.
C11_UnresolvedDropped ==
    /\ (pc = "panic" /\ AutoOrRaw(lowered[Len(lowered)])) => Unsupported(lowered[Len(lowered)])
    /\ (pc \in {"reloc", "done"} /\ AllAutoOrRaw) => OnlyResolvedLowered
    /\ (Finished /\ AllAutoOrRaw) =>
           /\ out.after_relocations - out.after_strtable
                  = SIZEOF_RELOCATION_INFO
                      * Len(ExpectedAddresses(lowered, FALSE) \o ExpectedAddresses(lowered, TRUE))
           /\ out.sections[1].nreloc = Len(ExpectedAddresses(lowered, FALSE))
           /\ out.sections[2].nreloc = Len(ExpectedAddresses(lowered, TRUE))

C11_Witness ==
    /\ Finished
    /\ Len(lowered) = 2
    /\ lowered[1].reloc.tag = "Raw" /\ ~Resolved(lowered[1])
    /\ lowered[2].reloc = Auto /\ Resolved(lowered[2])
    /\ out.sections[1].nreloc = 1
    /\ out.sections[2].nreloc = 0
    /\ AddressesOf(KeyText) = <<0>>

\* the definition is a Data definition with a zero-init payload
ZeroInitData(def) == def.decl.kind = "Data" /\ def.data.tag = "ZeroInit"

\* the sum of the lengths of the zero-init Data definitions of the artifact
ZeroInitTotal ==
    SumSeq([i \in 1..Len(artifact.definitions) |->
               IF ZeroInitData(artifact.definitions[i])
               THEN artifact.definitions[i].data.len ELSE 0])

\* the blob and pad bytes of the definitions that are not zero-init
BlobAndPadTotal ==
    SumSeq([i \in 1..Len(artifact.definitions) |->
               IF ZeroInitData(artifact.definitions[i]) THEN 0
               ELSE artifact.definitions[i].data.len
                      + PadGet(segment.align_pad_map, artifact.definitions[i].name)])

\* C12: __bss has size 0, no payload or pad byte is written for a zero-init
\* definition, the segment's filesize is the sum of the sizes of all sections,
\* and vmsize - filesize is the sum of the lengths of the zero-init Data
\* definitions.
C12_BssSizing ==
    Finished =>
        /\ out.sections[BSS_SECTION_INDEX + 1].sectname = KeyBss
        /\ out.sections[BSS_SECTION_INDEX + 1].size = 0
        /\ \A i \in 1..Len(artifact.definitions) :
               ZeroInitData(artifact.definitions[i]) =>
                   segment.align_pad_map[artifact.definitions[i].name] = 0
        /\ out.after_custom_sections - out.after_load_commands = BlobAndPadTotal
        /\ out.segment_load_command.filesize
               = SumSeq([i \in 1..Len(out.sections) |-> out.sections[i].size])
        /\ out.segment_load_command.vmsize - out.segment_load_command.filesize
               = ZeroInitTotal

C12_Witness ==
    /\ Finished
    /\ Len(artifact.definitions) = 2
    /\ artifact.definitions[1].data = ZeroInit(8)
    /\ artifact.definitions[2].data = ZeroInit(16)
    /\ artifact.definitions[2].decl.align = 32
    /\ out.segment_load_command.filesize = 0
    /\ out.segment_load_command.vmsize = 24

\* the symbol table that SegmentBuilder::new builds for an artifact with these
\* definitions and no imports
DefinedOnlySymtab(definitions) ==
    LET m == Partition(definitions)
        st0 == [symtab |-> SymbolTableNew, sections |-> << >>, offset |-> SizeofHeader(ctx),
                addr |-> 0, symbol_offset |-> 0, align_pad_map |-> << >>]
        st1 == BuildSection(st0, KeyText, "__TEXT", CODE_SECTION_INDEX, m.code,
                            TEXT_MIN_ALIGN_EXP, {"S_ATTR_PURE_INSTRUCTIONS", "S_ATTR_SOME_INSTRUCTIONS"})
        st2 == BuildSection(st1, KeyData, "__DATA", DATA_SECTION_INDEX, m.data,
                            DATA_MIN_ALIGN_EXP, {})
        st3 == BuildSection(st2, KeyCstring, "__TEXT", CSTRING_SECTION_INDEX, m.cstrings,
                            CSTRING_MIN_ALIGN_EXP, {"S_CSTRING_LITERALS"})
        st4 == BuildSection(st3, KeyBss, "__DATA", BSS_SECTION_INDEX, m.bss,
                            BSS_MIN_ALIGN_EXP, {"S_ZEROFILL"})
    IN  BuildCustomSectionsFrom(st4, m.sections, 0).symtab

\* the ordinals of the symbols created for imports, and of the defined symbols
ImportOrdinals == {i - 1 : i \in {j \in 1..Len(symtab.symbols) : symtab.symbols[j].builder.import}}
DefinedOrdinals == {i - 1 : i \in {j \in 1..Len(symtab.symbols) : ~symtab.symbols[j].builder.import}}

\* C13: every symbol created for an import has an ordinal greater than that of
\* every defined symbol, and every defined symbol has the ordinal and the
\* string-table offset it has for the same definitions without imports.
C13_ImportsLast ==
    LaidOut =>
        /\ \A i \in ImportOrdinals : \A d \in DefinedOrdinals : i > d
        /\ \A n \in DefinedNames :
               /\ SymtabIndex(symtab, n) # None
               /\ SymtabIndex(symtab, n)
                      = SymtabIndex(DefinedOnlySymtab(artifact.definitions), n)
               /\ SymbolOf(symtab, n).name
                      = SymbolOf(DefinedOnlySymtab(artifact.definitions), n).name

C13_Witness ==
    /\ Finished
    /\ artifact.imports # << >>
    /\ ImportOrdinals = {2}
    /\ DefinedOrdinals = {0, 1}
    /\ SymtabIndex(symtab, NameSub) = 1
    /\ out.nlists[3].n_strx = 1 + (Len(NameF) + 2) + (Len(NameSub) + 2)

\* the minimum alignment exponent SegmentBuilder::new passes for a default section
MinAlignExpOf(key) ==
    IF key = KeyText THEN TEXT_MIN_ALIGN_EXP
    ELSE IF key = KeyData THEN DATA_MIN_ALIGN_EXP
    ELSE IF key = KeyCstring THEN CSTRING_MIN_ALIGN_EXP
    ELSE BSS_MIN_ALIGN_EXP

\* the header written for the section stored under key
HeaderOf(key) == out.sections[SectionPos(segment.sections, key)]

\* C14: the alignment exponent in the header of every default section is at
\* least the section's minimum exponent and at least log2(align) of every
\* definition placed in the section, the first one included.
C14_SectionAlignment ==
    Finished =>
        \A key \in DefaultKeys :
            /\ HeaderOf(key).align >= MinAlignExpOf(key)
            /\ \A i \in 1..Len(DefsOf(key)) :
                   HeaderOf(key).align >= AlignToAlignExp(AlignOrOne(DefsOf(key)[i].decl))

\* the alignment, in bytes, that a definition of the default section key must start at
StartAlignment(key, def) ==
    Pow2(Max(MinAlignExpOf(key), AlignToAlignExp(AlignOrOne(def.decl))))

\* C15: in every default section every definition starts at a section-relative
\* offset that is a multiple of max(2^min_align_exp, its own alignment), and the
\* pad recorded for the definition before it is the smallest number of bytes
\* that achieves this: it is below the alignment, and no smaller pad aligns.
C15_AlignedStarts ==
    LaidOut =>
        \A key \in DefaultKeys :
            LET defs == DefsOf(key)
            IN  \A i \in 1..Len(defs) :
                    LET a == StartAlignment(key, defs[i])
                        start == SymtabOffset(symtab, defs[i].name)
                    IN  /\ start % a = 0
                        /\ i > 1 =>
                               LET pad == segment.align_pad_map[defs[i - 1].name]
                               IN  /\ 0 <= pad /\ pad < a
                                   /\ \A q \in 0..(pad - 1) : (start - pad + q) % a # 0

C15_Witness ==
    /\ LaidOut
    /\ Len(mach.cstrings) = 2
    /\ mach.cstrings[1].data = Blob(1)
    /\ mach.cstrings[2].decl.align = 4
    /\ segment.align_pad_map[mach.cstrings[1].name] = 3
    /\ SymtabOffset(symtab, mach.cstrings[2].name) = 4

\* the length code for a relocation size the lowerer supports
LengthCode(size, absolute) ==
    IF size = 0 THEN (IF absolute THEN 3 ELSE 2) ELSE IF size = 4 THEN 2 ELSE 3

\* the step leaves every relocation list as it is and does not abort
NothingEmitted == segment' = segment /\ pc' = "reloc"

\* the step appends exactly one relocation, the Debug relocation of link, to the
\* list of the link's source section and leaves every other list as it is
DebugEmitted(link) ==
    LET own == SectionPos(segment.sections, link.from.name)
    IN  /\ pc' = "reloc"
        /\ Len(segment'.sections) = Len(segment.sections)
        /\ Len(Appended(own)) = 1
        /\ Appended(own)[1].r_address = link.at
        /\ Field(Appended(own)[1].r_info, 0, 23) = SymtabIndex(symtab, link.to.name)
        /\ Field(Appended(own)[1].r_info, 24, 24) = 0
        /\ Field(Appended(own)[1].r_info, 25, 26) = LengthCode(link.reloc.size, TRUE)
        /\ Field(Appended(own)[1].r_info, 28, 31) = X86_64_RELOC_UNSIGNED
        /\ \A i \in 1..Len(segment.sections) :
               i # own =>
                   segment'.sections[i].builder.relocations
                       = segment.sections[i].builder.relocations

\* C16: a Debug link whose target is a section emits nothing; one whose target
\* has a symbol ordinal appends exactly one relocation (absolute, r_address = at,
\* length from size, X86_64_RELOC_UNSIGNED) to the list of its source's own
\* custom section and nothing to the lists of __text and __data; one whose
\* target has no symbol emits nothing and the later links are still lowered.
\* The second case is that of a source that is a custom section and of a size
\* of 0, 4 or 8: any other source or size is fatal.
C16_DebugLink ==
    [][(LowersLink /\ NextLink.reloc.tag = "Debug") =>
          IF IsSection(NextLink.to.decl) THEN NothingEmitted
          ELSE IF SymtabIndex(symtab, NextLink.to.name) = None THEN NothingEmitted
          ELSE (IsSection(NextLink.from.decl) /\ NextLink.reloc.size \in {0, 4, 8})
                   => DebugEmitted(NextLink)]_vars

C16_Witness ==
    /\ Finished
    /\ Len(lowered) = 2
    /\ lowered[1].reloc = Debug(4) /\ lowered[1].to = UndefinedFunction
    /\ lowered[2].reloc = Debug(4) /\ IsSection(lowered[2].from.decl)
    /\ lowered[2].to.name = NameF /\ lowered[2].at = 0
    /\ out.sections[5].nreloc = 1
    /\ out.sections[1].nreloc = 0 /\ out.sections[2].nreloc = 0
    /\ Field(segment.sections[5].builder.relocations[1].r_info, 25, 26) = 2

(***************************************************************************)
(* RelocationBuilder alone: builders of every shape are created.           *)
(***************************************************************************)
\* 2^24 - 1, the largest symbol ordinal that fits the 24 bits of r_symbolnum
MaxSymbolnum == Pow2(24) - 1

RelocSymbols == {0, 1, 5, MaxSymbolnum, MaxSymbolnum + 1}
RelocOffsets == {0, 17}
RelocTypes == {X86_64_RELOC_UNSIGNED, X86_64_RELOC_SIGNED, X86_64_RELOC_BRANCH,
               X86_64_RELOC_GOT_LOAD, 9, 15, 16, 17, 255}
RelocSizes == {0, 2, 4, 8}

InitReloc ==
    /\ artifact = Artifact(<< >>, << >>, << >>)
    /\ ctx = TRUE
    /\ pc = "relocation"
    /\ mach = NoMach
    /\ symtab = SymbolTableNew
    /\ segment = NoSegment
    /\ symbol_offset = 0
    /\ lowered = << >>
    /\ out = NoOut
    /\ call = NoCall

\* RelocationBuilder::new(..), .absolute() and .size(..) as asked, then create()
CreateRelocation ==
    /\ pc = "relocation"
    /\ \E symbol \in RelocSymbols, relocation_offset \in RelocOffsets, r_type \in RelocTypes,
          absolute \in BOOLEAN, size \in RelocSizes :
          LET builder == [RelocationBuilderNew(symbol, relocation_offset, r_type)
                             EXCEPT !.absolute = absolute, !.size = size]
          IN  IF SizeSupported(size)
              THEN /\ out' = [written |-> FALSE, builder |-> builder,
                              relocation |-> RelocationBuilderCreate(builder)]
                   /\ pc' = "created"
              ELSE /\ out' = [written |-> FALSE, builder |-> builder]
                   /\ pc' = "panic"
    /\ UNCHANGED <<artifact, ctx, mach, symtab, segment, symbol_offset, lowered, call>>

NextReloc == CreateRelocation

SpecReloc == InitReloc /\ [][NextReloc]_vars

\* a relocation has been created from out.builder
Created == pc = "created"

\* the fields of r_info are those of the builder
Decodes(b, r_info) ==
    /\ Field(r_info, 0, 23) = b.symbol
    /\ Field(r_info, 24, 24) = (IF b.absolute THEN 0 ELSE 1)
    /\ Field(r_info, 25, 26) = LengthCode(b.size, b.absolute)
    /\ Field(r_info, 27, 27) = 1
    /\ Field(r_info, 28, 31) = b.r_type

\* C17 as stated: for every relocation type up to 255 the fields of r_info are
\* the ordinal, the pc-relative bit, the length code, 1, and the type.
C17_Original ==
    (Created /\ out.builder.r_type <= 255) => Decodes(out.builder, out.relocation.r_info)

\* C17 amended: for a symbol ordinal below 2^24 and a relocation type below 16
\* (the Auto types, and the Raw codes that fit the 4 bits of the field) the
\* fields of r_info are the ordinal, the pc-relative bit, the length code, 1,
\* and the type; a Raw code from 16 to 255 leaves its low 4 bits in bits 28-31;
\* a size other than 0, 4 and 8 is fatal.
C17_RInfoFields ==
    /\ (Created /\ out.builder.symbol <= MaxSymbolnum) =>
           /\ out.builder.size \in {0, 4, 8}
           /\ out.builder.r_type < 16 => Decodes(out.builder, out.relocation.r_info)
           /\ Decodes([out.builder EXCEPT !.r_type = @ % 16], out.relocation.r_info)
    /\ (pc = "panic" /\ "builder" \in DOMAIN out) => out.builder.size \notin {0, 4, 8}

C17_Witness ==
    /\ Created
    /\ out.builder.symbol = 5
    /\ out.builder.r_type = X86_64_RELOC_BRANCH
    /\ ~out.builder.absolute
    /\ out.builder.size = 0
    /\ Field(out.relocation.r_info, 0, 23) = 5
    /\ Field(out.relocation.r_info, 24, 27) = 1 + 2 * 2 + 8
    /\ Field(out.relocation.r_info, 28, 31) = 2

\* the bytes of the written string table from byte offset strx, len of them
StrtableAt(st, strx, len) == SubSeq(WriteStrtable(st), strx + 1, strx + len)

\* len + 2 of the name of every symbol with an ordinal below k - 1, in ordinal order
EarlierNames(k) == [j \in 1..(k - 1) |-> Len(SymbolName(j)) + 2]

\* C18: the k-th Nlist written is the symbol with ordinal k (from zero), and
\* the bytes of the written string table at its n_strx are '_', the symbol's
\* name and a NUL, n_strx being 1 plus the sum of len + 2 over the names of
\* the symbols inserted before it.
C18_NameOffsets ==
    pc = "symtab" =>
        /\ Len(WriteSymtable(symtab)) = SymtabLen(symtab)
        /\ \A name \in SeqRange(call.names) :
               name # EmptyName => SymtabIndex(symtab, name) # None
        /\ \A k \in 1..Len(WriteSymtable(symtab)) :
               LET nlist == WriteSymtable(symtab)[k]
                   name == SymbolName(k)
               IN  /\ SymtabIndex(symtab, name) = k - 1
                   /\ nlist = SymbolBuilderCreate(SymbolOf(symtab, name))
                   /\ nlist.n_strx + Len(name) + 2 <= Len(WriteStrtable(symtab))
                   /\ StrtableAt(symtab, nlist.n_strx, Len(name) + 2) = <<95>> \o name \o <<0>>
                   /\ nlist.n_strx = 1 + SumSeq(EarlierNames(k))

C18_Witness ==
    /\ pc = "symtab"
    /\ call.names = <<NameExt, NameF, NameExt>>
    /\ SymtabLen(symtab) = 2
    /\ WriteSymtable(symtab)[2].n_strx = 6
    /\ SymbolName(2) = NameF
    /\ StrtableAt(symtab, 6, 3) = <<95, 102, 0>>

\* C19: the VM address in the header of every section, default or custom, is
\* a multiple of 2^align, align being the exponent in the same header.
C19_AlignedAddresses ==
    Finished =>
        \A i \in 1..Len(out.sections) :
            out.sections[i].addr % Pow2(out.sections[i].align) = 0

\* the definitions placed in the default sections, in section and layout order
DefaultDefinitions == mach.code \o mach.data \o mach.cstrings \o mach.bss

\* n_value of the Nlist written for the symbol of this name
NValueOf(name) == out.nlists[SymtabIndex(symtab, name) + 1].n_value

\* C20: two distinct definitions of non-zero length placed in default sections
\* have disjoint ranges [n_value, n_value + length), the length being that of
\* the blob or of the zero-initialised area.
C20_DisjointRanges ==
    Finished =>
        \A i, j \in 1..Len(DefaultDefinitions) :
            LET a == DefaultDefinitions[i]
                b == DefaultDefinitions[j]
            IN  (i < j /\ a.data.len > 0 /\ b.data.len > 0) =>
                    \/ NValueOf(a.name) + a.data.len <= NValueOf(b.name)
                    \/ NValueOf(b.name) + b.data.len <= NValueOf(a.name)

=============================================================================
